---- MODULE Spec2Model ----
(***************************************************************************)
(* Lights Out (snoyberg/lightsout-rs, src/main.rs): the puzzle engine      *)
(* `Game` (25 Reactive<Light> cells and a Reactive<usize> move counter)    *)
(* and the generic reactive value `Reactive<T>` with its scoped mutation   *)
(* handle `ReactiveMut`.                                                   *)
(*                                                                         *)
(* Spec          the Game: new_empty, new_random, toggle, toggle_rc,       *)
(*               check_rc, all_off, make_move, one action per method call. *)
(*               It starts as the game of main, new_empty with the widget  *)
(*               closures registered on its 26 cells; a game new_random    *)
(*               returns has no observer.                                  *)
(* SpecReactive  one Reactive<T> cell: register, lock, writes through the  *)
(*               handle, drop of the handle.                               *)
(***************************************************************************)
EXTENDS Integers, Sequences, FiniteSets, TLC

\* ---------------------------------------------------------------- constants
Side == 5                       \* rows and columns of the grid
NumLights == 25                 \* [Reactive<Light>; 25]
Cells == 0 .. (NumLights - 1)   \* flat indices of the lights
MovesCell == NumLights          \* name of the `moves` cell in `fired`

\* ------------------------------------------------------------------- bounds
MaxOps == 2          \* method calls made on one game; the toggles new_random
                     \* applied count, a call may be repeated once at the end
MaxIndex == 25       \* toggle is called with i in 0..MaxIndex
MaxCoord == 5        \* toggle_rc, check_rc, make_move get row, col in 0..MaxCoord
MaxDifficulty == 2   \* every outcome of the shuffle is taken when at most this
                     \* many entries are true, or at most this many are false
MaxBadDifficulty == 26  \* largest difficulty passed to new_random
MaxObservers == 3    \* closures registered on the Reactive<T> cell
MaxWrites == 2       \* stores through one ReactiveMut before it is dropped
MaxValue == 2        \* the cell holds a T in 0..MaxValue

VARIABLES
    lights,     \* lights[i].inner.status, i in Cells
    moves,      \* moves.inner
    fired,      \* cells whose ReactiveMut was dropped by the last call, in order
    last,       \* the last call: method, arguments, whether it returned, result
    pre,        \* lights and moves before the last call
    rep,        \* the last call repeated the call before it (same method and
                \* arguments, both returned)
    ctor,       \* constructor that built the game
    nops,       \* calls made on the game so far
    nmoves,     \* make_move calls that returned
    observers,  \* observers[k]: the listeners of lights[k], k in Cells, and of
                \* moves, k = MovesCell, in the order of the Vec
    notified,   \* observer invocations of the last call, in order: closure,
                \* cell, value passed, and the lit cells and the move counter
                \* of the game at that moment
    dealt,      \* the difficulty of the game new_random returned, as long as
                \* no call has changed the game; 0 otherwise
    toggled,    \* indices i for which toggle(i) ran an odd number of times
    singles,    \* cells toggle_rc was called on an odd number of times
    \* one Reactive<T> cell on its own (SpecReactive)
    inner,      \* Reactive::inner
    listeners,  \* Reactive::listeners, the observers in the order of the Vec
    handle,     \* a ReactiveMut borrowed from the cell is alive
    written,    \* values stored through the handle since the last lock
    calls,      \* observer invocations <<f, value passed>> since the last lock,
                \* or those of the last register
    rstep       \* the last step taken on the cell

gameVars == <<lights, moves, fired, last, pre, rep, ctor, nops, nmoves,
              observers, notified, dealt, toggled, singles>>
cellVars == <<inner, listeners, handle, written, calls, rstep>>
vars == <<lights, moves, fired, last, pre, rep, ctor, nops, nmoves,
          observers, notified, dealt, toggled, singles,
          inner, listeners, handle, written, calls, rstep>>

\* ------------------------------------------------------------------- Light
\* Light::new
Light_new == FALSE

\* a toggle that only ever switches the light on
Light_switch_on(status) == TRUE

\* Light::toggle
Light_toggle(status) == ~status

\* ---------------------------------------------------------------- Reactive
\* Reactive::new
Reactive_new(v) == [inner |-> v, listeners |-> <<>>]

\* register inserting the closure at the front of the Vec
register_front(r, f) ==
    [reactive |-> [r EXCEPT !.listeners = <<f>> \o @],
     calls    |-> <<[f |-> f, v |-> r.inner]>>]

\* Reactive::register: f(&self.inner); self.listeners.push(Box::new(f))
register(r, f) ==
    [reactive |-> [r EXCEPT !.listeners = Append(@, f)],
     calls    |-> <<[f |-> f, v |-> r.inner]>>]

\* Reactive::lock: ReactiveMut { reactive: self }; no listener runs
lock(r) == [reactive |-> r, calls |-> <<>>]

\* a store that notifies the listeners at once
store_notify(r, v) ==
    [reactive |-> [r EXCEPT !.inner = v],
     calls    |-> [k \in 1 .. Len(r.listeners) |-> [f |-> r.listeners[k], v |-> v]]]

\* DerefMut for ReactiveMut, then a store through the &mut T; no listener runs
deref_mut_store(r, v) == [reactive |-> [r EXCEPT !.inner = v], calls |-> <<>>]

\* drop walking the listeners from the back
drop_reversed(r) ==
    [reactive |-> r,
     calls    |-> [k \in 1 .. Len(r.listeners) |->
                      [f |-> r.listeners[Len(r.listeners) + 1 - k], v |-> r.inner]]]

\* Drop for ReactiveMut: for f in listeners.iter_mut() { f(&inner) }
drop(r) ==
    [reactive |-> r,
     calls    |-> [k \in 1 .. Len(r.listeners) |->
                      [f |-> r.listeners[k], v |-> r.inner]]]

\* -------------------------------------------------------------------- Game
\* A game value threaded through a method body.  ok = FALSE once an assert!
\* has failed: the rest of the body is skipped (the panic unwinds).
NoToggles == [k \in Cells |-> FALSE]

\* Game::new_empty
new_empty ==
    [lights |-> [k \in Cells |-> Reactive_new(Light_new).inner],
     moves |-> Reactive_new(0).inner,
     listeners |-> [k \in 0 .. NumLights |-> Reactive_new(0).listeners],
     fired |-> <<>>, notified |-> <<>>, ok |-> TRUE]

\* assert!(cond)
assert(g, cond) == IF g.ok /\ ~cond THEN [g EXCEPT !.ok = FALSE] ELSE g

\* the Reactive<T> that is cell k of the game
cell(g, k) ==
    [inner |-> IF k = MovesCell THEN g.moves ELSE g.lights[k],
     listeners |-> g.listeners[k]]

\* the closures of `cs` ran on cell k while the game was as g
seen(g, k, cs) ==
    [j \in 1 .. Len(cs) |->
        [f |-> cs[j].f, cell |-> k, v |-> cs[j].v,
         lit |-> {c \in Cells : g.lights[c]}, moves |-> g.moves]]

\* the ReactiveMut of cell k goes out of scope
drop_cell(g, k) ==
    [g EXCEPT !.fired = Append(@, k),
              !.notified = @ \o seen(g, k, drop(cell(g, k)).calls)]

\* self.lights[k].lock().toggle(): the handle is a temporary, dropped (and the
\* cell's listeners notified) at the end of the statement
lock_toggle(g, k) ==
    IF ~g.ok THEN g
    ELSE drop_cell([g EXCEPT !.lights[k] = Light_toggle(@)], k)

\* toggle_rc with row and column exchanged in the index
toggle_rc_transposed(g, row, col) ==
    LET g1 == assert(g, row < Side)
        g2 == assert(g1, col < Side)
    IN  lock_toggle(g2, col * Side + row)

\* toggle_rc without the assert! on col
toggle_rc_col_unchecked(g, row, col) ==
    LET g1 == assert(g, row < Side)
    IN  lock_toggle(g1, row * Side + col)

\* Game::toggle_rc
toggle_rc(g, row, col) ==
    LET g1 == assert(g, row < Side)
        g2 == assert(g1, col < Side)
    IN  lock_toggle(g2, row * Side + col)

\* toggle with the left and right neighbours taken as i - 1 and i + 1 whenever
\* they are indices of the array: a row's end would reach into the next row
toggle_flat(g, i) ==
    LET g0  == assert(g, i < NumLights)
        row == i \div Side
        col == i % Side
        g1  == lock_toggle(g0, i)
        g2  == IF row > 0 THEN toggle_rc(g1, row - 1, col) ELSE g1
        g3  == IF row < Side - 1 THEN toggle_rc(g2, row + 1, col) ELSE g2
        g4  == IF i > 0 THEN lock_toggle(g3, i - 1) ELSE g3
        g5  == IF i < NumLights - 1 THEN lock_toggle(g4, i + 1) ELSE g4
    IN  IF g0.ok THEN g5 ELSE g0

\* toggle going left and right before up and down
toggle_row_first(g, i) ==
    LET g0  == assert(g, i < NumLights)
        row == i \div Side
        col == i % Side
        g1  == lock_toggle(g0, i)
        g2  == IF col > 0 THEN toggle_rc(g1, row, col - 1) ELSE g1
        g3  == IF col < Side - 1 THEN toggle_rc(g2, row, col + 1) ELSE g2
        g4  == IF row > 0 THEN toggle_rc(g3, row - 1, col) ELSE g3
        g5  == IF row < Side - 1 THEN toggle_rc(g4, row + 1, col) ELSE g4
    IN  IF g0.ok THEN g5 ELSE g0

\* toggle reaching the neighbours only when the light i itself came on
toggle_if_lit(g, i) ==
    LET g0  == assert(g, i < NumLights)
        row == i \div Side
        col == i % Side
        g1  == lock_toggle(g0, i)
        g2  == IF row > 0 THEN toggle_rc(g1, row - 1, col) ELSE g1
        g3  == IF row < Side - 1 THEN toggle_rc(g2, row + 1, col) ELSE g2
        g4  == IF col > 0 THEN toggle_rc(g3, row, col - 1) ELSE g3
        g5  == IF col < Side - 1 THEN toggle_rc(g4, row, col + 1) ELSE g4
    IN  IF ~g0.ok THEN g0 ELSE IF g1.lights[i] THEN g5 ELSE g1

\* Game::toggle
toggle(g, i) ==
    LET g0  == assert(g, i < NumLights)
        row == i \div Side
        col == i % Side
        g1  == lock_toggle(g0, i)
        g2  == IF row > 0 THEN toggle_rc(g1, row - 1, col) ELSE g1
        g3  == IF row < Side - 1 THEN toggle_rc(g2, row + 1, col) ELSE g2
        g4  == IF col > 0 THEN toggle_rc(g3, row, col - 1) ELSE g3
        g5  == IF col < Side - 1 THEN toggle_rc(g4, row, col + 1) ELSE g4
    IN  IF g0.ok THEN g5 ELSE g0

\* check_rc reading the light at column-major index col * 5 + row
check_rc_transposed(g, row, col) ==
    LET g1 == assert(g, row < Side)
        g2 == assert(g1, col < Side)
    IN  [ok |-> g2.ok, ret |-> IF g2.ok THEN g.lights[col * Side + row] ELSE FALSE]

\* Game::check_rc: the value returned (meaningful when ok)
check_rc(g, row, col) ==
    LET g1 == assert(g, row < Side)
        g2 == assert(g1, col < Side)
    IN  [ok |-> g2.ok, ret |-> IF g2.ok THEN g.lights[row * Side + col] ELSE FALSE]

\* the scan of all_off stopping one light short
RECURSIVE all_off_short(_, _)
all_off_short(g, i) ==
    IF i >= NumLights - 1 THEN TRUE
    ELSE IF g.lights[i] THEN FALSE
    ELSE all_off_short(g, i + 1)

\* Game::all_off: scan 0..24, return false at the first lit light
RECURSIVE all_off_from(_, _)
all_off_from(g, i) ==
    IF i >= NumLights THEN TRUE
    ELSE IF g.lights[i] THEN FALSE
    ELSE all_off_from(g, i + 1)

all_off(g) == all_off_from(g, 0)

\* the counter advanced by the number of cells the move changed
lock_incr_cells(g) ==
    IF ~g.ok THEN g
    ELSE drop_cell([g EXCEPT !.moves = @ + Len(g.fired)], MovesCell)

\* *self.moves.lock() += 1
lock_incr(g) ==
    IF ~g.ok THEN g
    ELSE drop_cell([g EXCEPT !.moves = @ + 1], MovesCell)

\* make_move flipping the one light (row, col), as toggle_rc does
make_move_rc(g, row, col) == lock_incr(toggle_rc(g, row, col))

\* make_move refusing the move once every light is off
make_move_until_won(g, row, col) ==
    IF all_off(g) THEN g ELSE lock_incr(toggle(g, row * Side + col))

\* make_move counting the move before it toggles
make_move_count_first(g, row, col) == toggle(lock_incr(g), row * Side + col)

\* Game::make_move
make_move(g, row, col) == lock_incr(toggle(g, row * Side + col))

\* the loop running over 0..=difficulty
first_true_incl(difficulty) == [k \in Cells |-> k <= difficulty]

\* for i in 0..difficulty { toggles[i] = true; }
first_true(difficulty) == [k \in Cells |-> k < difficulty]

\* the loop calling game.toggle(i) twice for each chosen index
RECURSIVE apply_toggles_twice(_, _, _)
apply_toggles_twice(g, toggles, i) ==
    IF i >= NumLights THEN g
    ELSE LET g1 == IF toggles[i] THEN toggle(g, i) ELSE g
             g2 == IF toggles[i] /\ g1.ok THEN toggle(g1, i) ELSE g1
         IN  IF g2.ok THEN apply_toggles_twice(g2, toggles, i + 1) ELSE g2

\* for i in 0..25 { if toggles[i] { game.toggle(i); } }
RECURSIVE apply_toggles(_, _, _)
apply_toggles(g, toggles, i) ==
    IF i >= NumLights THEN g
    ELSE LET g1 == IF toggles[i] THEN toggle(g, i) ELSE g
         IN  IF g1.ok THEN apply_toggles(g1, toggles, i + 1) ELSE g1

\* new_random returning the empty game, the toggle loop left out
new_random_untoggled(difficulty, shuffled) ==
    assert(new_empty, difficulty <= NumLights)

\* Game::new_random, for the outcome `shuffled` of toggles.shuffle(rng)
new_random(difficulty, shuffled) ==
    LET g0 == assert(new_empty, difficulty <= NumLights)
    IN  IF g0.ok THEN apply_toggles(g0, shuffled, 0) ELSE g0

\* ----------------------------------------------------------------- shuffle
RECURSIVE kSubsets(_, _)
kSubsets(S, k) ==
    IF k = 0 THEN {{}}
    ELSE UNION {{T \cup {x} : T \in kSubsets({y \in S : y > x}, k - 1)} : x \in S}

CountTrue(t) == Cardinality({k \in Cells : t[k]})

\* arrays whose true entries are the cells of some rows in some columns
Blocks ==
    {[k \in Cells |-> (k \div Side) \in R /\ (k % Side) \in C] :
        R \in SUBSET (0 .. (Side - 1)), C \in SUBSET (0 .. (Side - 1))}

\* arrays whose true entries are the cells in exactly one of a block of rows R
\* in columns C and the block of rows C in columns R
Quilts ==
    {[k \in Cells |-> ((k \div Side) \in R /\ (k % Side) \in C)
                        # ((k \div Side) \in C /\ (k % Side) \in R)] :
        R \in SUBSET (0 .. (Side - 1)), C \in SUBSET (0 .. (Side - 1))}

\* toggles.shuffle(rng): a permutation of the array, so an array with as many
\* true entries.  All of them when at most MaxDifficulty entries are true or
\* at most MaxDifficulty are false; otherwise the array left as it was, the
\* array reversed and the arrays of Blocks and of Quilts.
shuffle(t) ==
    LET d == CountTrue(t)
    IN  IF d <= MaxDifficulty
        THEN {[k \in Cells |-> k \in S] : S \in kSubsets(Cells, d)}
        ELSE IF NumLights - d <= MaxDifficulty
        THEN {[k \in Cells |-> k \notin S] : S \in kSubsets(Cells, NumLights - d)}
        ELSE {t, [k \in Cells |-> t[NumLights - 1 - k]]}
             \cup {b \in Blocks \cup Quilts : CountTrue(b) = d}

\* the difficulties new_random is called with
Difficulties == 0 .. MaxBadDifficulty

\* the array after the shuffle; none is made when the assert! fails
Shuffled(difficulty) ==
    IF difficulty <= NumLights THEN shuffle(first_true(difficulty)) ELSE {NoToggles}

\* -------------------------------------------------------------------- main
\* cell.register(f) on cell k of the game
register_cell(g, k, f) ==
    LET r == register(cell(g, k), f)
    IN  [g EXCEPT !.listeners[k] = r.reactive.listeners,
                  !.notified = @ \o seen(g, k, r.calls)]

\* light_widget: game.lights[row * 5 + col].register(closure restyling the
\* button); the closure of cell k is named k
light_widget(g, row, col) == register_cell(g, row * Side + col, row * Side + col)

\* moves_widget: game.moves.register(closure rewriting the span)
moves_widget(g) == register_cell(g, MovesCell, MovesCell)

\* for row in 0..5 { for col in 0..5 { light_widget(.., row, col) } }
RECURSIVE light_widgets(_, _)
light_widgets(g, k) ==
    IF k >= NumLights THEN g
    ELSE LET g1 == light_widget(g, k \div Side, k % Side)
         IN  IF g1.ok THEN light_widgets(g1, k + 1) ELSE g1

\* main: Game::new_empty(), the 25 light widgets, the moves widget
main == moves_widget(light_widgets(new_empty, 0))

\* ----------------------------------------------------------------- actions
Call(op, i, row, col) ==
    [op |-> op, i |-> i, row |-> row, col |-> col, difficulty |-> 0,
     toggles |-> NoToggles, ok |-> TRUE, ret |-> FALSE]

Self == [lights |-> lights, moves |-> moves, listeners |-> observers,
         fired |-> <<>>, notified |-> <<>>, ok |-> TRUE]

Flip(S, x) == IF x \in S THEN S \ {x} ELSE S \cup {x}

SameCall(a, b) ==
    /\ a.op = b.op /\ a.i = b.i /\ a.row = b.row /\ a.col = b.col
    /\ a.ok /\ b.ok

\* the methods taking &self
Reads == {"check_rc", "all_off"}

\* the arguments a method is called with: any of `all` while fewer than MaxOps
\* calls were made; after MaxOps calls the last call may be issued once more.
\* No call follows one whose assert! failed: nothing catches the panic, it
\* unwinds through the owner of the game.  A read is followed by its own
\* repeat only: it leaves the game as the call before it did.
Inputs(op, all, again) ==
    IF ~last.ok THEN {}
    ELSE IF last.op \in Reads
    THEN IF last.op = op /\ nops <= MaxOps THEN {again} ELSE {}
    ELSE IF nops < MaxOps THEN all
    ELSE IF nops = MaxOps /\ last.op = op THEN {again}
    ELSE {}

Indices == 0 .. MaxIndex
Coords == (0 .. MaxCoord) \X (0 .. MaxCoord)

\* the call `c` ran on the game and left it as `g`
Commit(c, g) ==
    /\ lights' = g.lights
    /\ moves' = g.moves
    /\ fired' = g.fired
    /\ last' = [c EXCEPT !.ok = g.ok]
    /\ pre' = [lights |-> lights, moves |-> moves]
    /\ rep' = SameCall(last, [c EXCEPT !.ok = g.ok])
    /\ nops' = nops + 1
    /\ observers' = g.listeners
    /\ notified' = g.notified
    /\ toggled' = IF g.ok /\ c.op = "toggle" THEN Flip(toggled, c.i)
                  ELSE IF g.ok /\ c.op = "make_move"
                  THEN Flip(toggled, c.row * Side + c.col)
                  ELSE toggled
    /\ singles' = IF g.ok /\ c.op = "toggle_rc"
                  THEN Flip(singles, c.row * Side + c.col)
                  ELSE singles
    /\ dealt' = IF g.lights = lights /\ g.moves = moves THEN dealt ELSE 0
    /\ UNCHANGED ctor
    /\ UNCHANGED cellVars

\* the program holds the game g, built by new_empty
GameStart(g) ==
    /\ lights = g.lights
    /\ moves = g.moves
    /\ fired = g.fired
    /\ last = Call("new_empty", 0, 0, 0)
    /\ pre = [lights |-> g.lights, moves |-> g.moves]
    /\ rep = FALSE
    /\ ctor = "new_empty"
    /\ nops = 0
    /\ nmoves = 0
    /\ observers = g.listeners
    /\ notified = g.notified
    /\ dealt = 0
    /\ toggled = {}
    /\ singles = {}

GameInit == GameStart(new_empty)

CellInit(v) ==
    /\ inner = Reactive_new(v).inner
    /\ listeners = Reactive_new(v).listeners
    /\ handle = FALSE
    /\ written = <<>>
    /\ calls = <<>>
    /\ rstep = "new"

\* the game of main, its widgets registered
Init == GameStart(main) /\ CellInit(0)

\* let game = Game::new_random(difficulty, rng), in place of new_empty
NewRandom ==
    /\ last.op = "new_empty"
    /\ \E difficulty \in Difficulties :
         \E shuffled \in Shuffled(difficulty) :
           LET g == new_random(difficulty, shuffled)
           IN  /\ lights' = g.lights
               /\ moves' = g.moves
               /\ fired' = g.fired
               /\ last' = [Call("new_random", 0, 0, 0) EXCEPT
                             !.difficulty = difficulty,
                             !.toggles = IF g.ok THEN shuffled ELSE NoToggles,
                             !.ok = g.ok]
               /\ pre' = [lights |-> lights, moves |-> moves]
               /\ rep' = FALSE
               /\ ctor' = IF g.ok THEN "new_random" ELSE ctor
               /\ nops' = IF g.ok THEN difficulty ELSE 1
               /\ observers' = IF g.ok THEN g.listeners ELSE observers
               /\ notified' = g.notified
               /\ dealt' = IF g.ok THEN difficulty ELSE dealt
               /\ toggled' = IF g.ok THEN {k \in Cells : shuffled[k]} ELSE toggled
               /\ singles' = IF g.ok THEN {} ELSE singles
    /\ UNCHANGED nmoves
    /\ UNCHANGED cellVars

Toggle ==
    /\ \E i \in Inputs("toggle", Indices, last.i) :
         Commit(Call("toggle", i, 0, 0), toggle(Self, i))
    /\ UNCHANGED nmoves

ToggleRc ==
    /\ \E rc \in Inputs("toggle_rc", Coords, <<last.row, last.col>>) :
         Commit(Call("toggle_rc", 0, rc[1], rc[2]), toggle_rc(Self, rc[1], rc[2]))
    /\ UNCHANGED nmoves

CheckRc ==
    /\ \E rc \in Inputs("check_rc", Coords, <<last.row, last.col>>) :
         LET r == check_rc(Self, rc[1], rc[2])
         IN  Commit([Call("check_rc", 0, rc[1], rc[2]) EXCEPT !.ret = r.ret],
                    [Self EXCEPT !.ok = r.ok])
    /\ UNCHANGED nmoves

\* all_off is also what the program asks first of a game new_random returned
AllOff ==
    /\ \E u \in Inputs("all_off", {0}, 0)
                 \cup (IF last.op = "new_random" /\ last.ok THEN {0} ELSE {}) :
         Commit([Call("all_off", 0, 0, 0) EXCEPT !.ret = all_off(Self)], Self)
    /\ UNCHANGED nmoves

MakeMove ==
    \E rc \in Inputs("make_move", Coords, <<last.row, last.col>>) :
       LET g == make_move(Self, rc[1], rc[2])
       IN  /\ Commit(Call("make_move", 0, rc[1], rc[2]), g)
           /\ nmoves' = IF g.ok THEN nmoves + 1 ELSE nmoves

Next ==
    \/ NewRandom
    \/ Toggle
    \/ ToggleRc
    \/ CheckRc
    \/ AllOff
    \/ MakeMove

Spec == Init /\ [][Next]_vars

\* -------------------------------------------------- the Reactive<T> cell alone
Values == 0 .. MaxValue
Observers == 1 .. MaxObservers

Cell == [inner |-> inner, listeners |-> listeners]

Registered == {listeners[k] : k \in 1 .. Len(listeners)}

\* cell.register(f): needs &mut self, so no handle is alive; f is moved in
Register ==
    /\ ~handle
    /\ \E f \in Observers \ Registered :
         LET r == register(Cell, f)
         IN  /\ inner' = r.reactive.inner
             /\ listeners' = r.reactive.listeners
             /\ calls' = r.calls
    /\ rstep' = "register"
    /\ UNCHANGED <<handle, written>>
    /\ UNCHANGED gameVars

\* let mut h = cell.lock()
Lock ==
    /\ ~handle
    /\ LET r == lock(Cell)
       IN  /\ inner' = r.reactive.inner
           /\ listeners' = r.reactive.listeners
           /\ calls' = r.calls
    /\ handle' = TRUE
    /\ written' = <<>>
    /\ rstep' = "lock"
    /\ UNCHANGED gameVars

\* *h = v
Store ==
    /\ handle
    /\ Len(written) < MaxWrites
    /\ \E v \in Values :
         LET r == deref_mut_store(Cell, v)
         IN  /\ inner' = r.reactive.inner
             /\ listeners' = r.reactive.listeners
             /\ calls' = calls \o r.calls
             /\ written' = Append(written, v)
    /\ rstep' = "store"
    /\ UNCHANGED handle
    /\ UNCHANGED gameVars

\* h goes out of scope (end of block, early return or unwinding)
Drop ==
    /\ handle
    /\ LET r == drop(Cell)
       IN  /\ inner' = r.reactive.inner
           /\ listeners' = r.reactive.listeners
           /\ calls' = calls \o r.calls
    /\ handle' = FALSE
    /\ rstep' = "drop"
    /\ UNCHANGED written
    /\ UNCHANGED gameVars

ReactiveInit == GameInit /\ \E v \in Values : CellInit(v)

ReactiveNext ==
    \/ Register
    \/ Lock
    \/ Store
    \/ Drop

SpecReactive == ReactiveInit /\ [][ReactiveNext]_vars

TypeOK ==
    /\ lights \in [Cells -> BOOLEAN]
    /\ moves \in 0 .. (MaxOps + 1)
    /\ nops \in 0 .. (NumLights + 1)
    /\ observers \in [0 .. NumLights -> Seq(0 .. NumLights)]
    /\ dealt \in 0 .. NumLights
    /\ toggled \subseteq Cells
    /\ singles \subseteq Cells
    /\ inner \in Values
    /\ handle \in BOOLEAN

\* ------------------------------------------------------------- properties
RowOf(k) == k \div Side
ColOf(k) == k % Side
Dist(a, b) == IF a < b THEN b - a ELSE a - b

\* the cell i and its up/down/left/right neighbours inside the grid
PlusOf ==
    [i \in Cells |->
        {k \in Cells : Dist(RowOf(k), RowOf(i)) + Dist(ColOf(k), ColOf(i)) <= 1}]

Plus(i) == PlusOf[i]

Lit == {k \in Cells : lights[k]}
Flipped == {k \in Cells : lights[k] # pre.lights[k]}
Returned(op) == last.op = op /\ last.ok

\* C1: toggle(i), from any grid and for every i in 0..24, flips exactly the
\* cell i and its up/down/left/right neighbours inside the grid and leaves the
\* other cells as they were; nothing wraps around an edge (toggle(4) leaves
\* index 5 alone; from the empty grid toggle(0) lights exactly 0, 5 and 1, and
\* 6 stays unlit).
C1_ToggleFlipsPlus ==
    Returned("toggle") =>
        /\ last.i \in Cells
        /\ \A k \in Cells : lights[k] = (pre.lights[k] # (k \in Plus(last.i)))
        /\ last.i = 4 => lights[5] = pre.lights[5]
        /\ (last.i = 0 /\ pre.lights = new_empty.lights) => Lit = {0, 1, 5}

\* toggle(4) has run on a grid whose light 5 was lit
C1_Witness ==
    /\ Returned("toggle")
    /\ last.i = 4
    /\ pre.lights[5]
    /\ Flipped = {3, 4, 9}

\* C2: a toggle(i) that returns leaves a game different from the one it
\* started on, and when it repeats the toggle(i) just before it (nothing in
\* between) the game is again the one before the first of the two, in all 25
\* lights and in moves.
C2_Involution ==
    [][(last'.op = "toggle" /\ last'.ok) =>
          /\ <<lights', moves'>> # <<lights, moves>>
          /\ rep' => (lights' = pre.lights /\ moves' = pre.moves)]_vars

\* toggle(i) ran twice in a row on a game with lit lights and one move made
C2_Witness ==
    /\ Returned("toggle")
    /\ rep
    /\ Lit # {}
    /\ moves = 1

C4_MoveAccounting ==
    /\ moves = nmoves
    /\ moves >= pre.moves
    /\ (Returned("new_empty") \/ Returned("new_random")) => moves = 0
    /\ Returned("make_move") =>
          (moves = pre.moves + 1 /\ Cardinality(Flipped) \in {3, 4, 5})
    /\ last.op \in {"toggle", "toggle_rc", "check_rc", "all_off"} =>
          moves = pre.moves
    /\ (last.op = "make_move" /\ ~last.ok) => moves = pre.moves

\* a second move that flipped only 3 lights, after a first one that counted
C4_Witness ==
    /\ Returned("make_move")
    /\ moves = 2
    /\ Cardinality(Flipped) = 3

\* C5 as stated: make_move(row, col) with row >= 5 or col >= 5 fails, flips no
\* light and does not count a move.
C5_MakeMoveRejectsBadCoords ==
    (last.op = "make_move" /\ (last.row >= Side \/ last.col >= Side)) =>
        /\ ~last.ok
        /\ lights = pre.lights
        /\ moves = pre.moves

\* C9: all_off() is true exactly when none of the 25 lights is lit, whatever
\* the state and whenever it is called; it is true of new_empty and false
\* after one toggle(i) on the empty grid, for every i.
C9_WinDetection ==
    /\ all_off(Self) = (Lit = {})
    /\ Returned("all_off") => (last.ret = (Lit = {}))
    /\ Returned("new_empty") => all_off(Self)
    /\ (Returned("toggle") /\ pre.lights = new_empty.lights) => ~all_off(Self)

\* all_off() returned false on a grid whose only lit light is the last one
C9_Witness ==
    /\ Returned("all_off")
    /\ ~last.ret
    /\ Lit = {24}

\* make_move on every index chosen by `toggles`, in ascending order
RECURSIVE solve(_, _, _)
solve(g, toggles, i) ==
    IF i >= NumLights THEN g
    ELSE LET g1 == IF toggles[i] THEN make_move(g, RowOf(i), ColOf(i)) ELSE g
         IN  IF g1.ok THEN solve(g1, toggles, i + 1) ELSE g1

\* the cells of the plus shapes of the indices in S, counted once per shape
SumPlus(S) == Cardinality({p \in S \X Cells : p[2] \in Plus(p[1])})

\* C10: new_random(difficulty, rng) with difficulty in 0..25 toggles, from the
\* empty grid and whatever the shuffle gives, exactly `difficulty` distinct
\* indices once each; the puzzle is solvable: one make_move per chosen index
\* (`difficulty` moves) brings all_off() back to true.
C10_RandomSolvable ==
    Returned("new_random") =>
        LET S == {k \in Cells : last.toggles[k]}
            s == solve(Self, last.toggles, 0)
        IN  /\ last.difficulty \in 0 .. NumLights
            /\ Cardinality(S) = last.difficulty
            /\ \A k \in Cells :
                 lights[k] = (Cardinality({i \in S : k \in Plus(i)}) % 2 = 1)
            /\ Len(fired) = SumPlus(S)
            /\ s.ok
            /\ all_off(s)
            /\ s.moves = moves + last.difficulty

\* new_random(2, rng) chose the overlapping toggles 0 and 1
C10_Witness ==
    /\ Returned("new_random")
    /\ last.difficulty = 2
    /\ last.toggles[0] /\ last.toggles[1]
    /\ Lit = {2, 5, 6}

\* C6: a scoped mutation of the cell (lock ... drop of the handle) invokes
\* every registered observer exactly once, at the drop, in the order of
\* registration, all with the value the cell holds after the scope; nothing
\* is invoked while the handle is alive; the observers are notified also when
\* the scope stored nothing.
C6_NotifyOnRelease ==
    /\ (handle \/ rstep \in {"lock", "store"}) => calls = <<>>
    /\ rstep = "drop" =>
          /\ ~handle
          /\ Len(calls) = Len(listeners)
          /\ \A k \in 1 .. Len(listeners) :
                calls[k].f = listeners[k] /\ calls[k].v = inner
          /\ written # <<>> => inner = written[Len(written)]

\* a scope that stored nothing was closed on a cell with three observers
C6_Witness ==
    /\ rstep = "drop"
    /\ written = <<>>
    /\ Len(listeners) = 3
    /\ Len(calls) = 3
    /\ listeners[1] > listeners[2]

\* C7: register(f) invokes f once, at once, with the cell's current value,
\* invokes no observer registered before, leaves the value alone and puts f at
\* the end of the list; every later drop notifies the observers in the order
\* of the list, so f after all those registered before it.
C7_RegistrationReplay ==
    [][/\ rstep' = "register" =>
            /\ Len(listeners') = Len(listeners) + 1
            /\ SubSeq(listeners', 1, Len(listeners)) = listeners
            /\ listeners'[Len(listeners')] \notin Registered
            /\ calls' = <<[f |-> listeners'[Len(listeners')], v |-> inner]>>
            /\ inner' = inner
       /\ rstep' = "drop" =>
            /\ listeners' = listeners
            /\ [k \in 1 .. Len(calls') |-> calls'[k].f] = listeners]_vars

\* a second observer was registered after a scope had changed the value
C7_Witness ==
    /\ rstep = "register"
    /\ Len(listeners) = 2
    /\ written # <<>>
    /\ calls = <<[f |-> listeners[2], v |-> inner]>>

\* C8: a scope that stores several values before its handle is dropped
\* notifies each observer exactly once, with the last value stored; no
\* observer is invoked by a store, none receives a value stored earlier in the
\* scope.
C8_Batching ==
    /\ rstep = "store" => calls = <<>>
    /\ (rstep = "drop" /\ written # <<>>) =>
          /\ \A f \in Registered :
                Cardinality({k \in 1 .. Len(calls) : calls[k].f = f}) = 1
          /\ \A k \in 1 .. Len(calls) : calls[k].v = written[Len(written)]

\* a scope with two different stores was closed on a cell with two observers
C8_Witness ==
    /\ rstep = "drop"
    /\ Len(written) = 2
    /\ written[1] # written[2]
    /\ Len(listeners) = 2
    /\ Len(calls) = 2

\* C11: for every outcome of the shuffle, the board new_random(25) returns is
\* not all off: all_off() asked of it answers false.
C11_FullBoardNotAllOff ==
    /\ (Returned("new_random") /\ last.difficulty = NumLights) => ~all_off(Self)
    /\ (Returned("all_off") /\ dealt = NumLights) => ~last.ret

\* all_off() has answered on the board new_random(25) returned, every index
\* toggled once
C11_Witness ==
    /\ Returned("all_off")
    /\ dealt = NumLights
    /\ toggled = Cells
    /\ ctor = "new_random"
    /\ ~last.ret

\* C12: for every row, col in 0..4, on the game new_empty returned one
\* make_move(row, col) leaves lit exactly (row, col) and its neighbours inside
\* the grid, with moves = 1 (for (2, 2): the lights 7, 17, 11, 13 and 12); the
\* same make_move made once more leaves every light unlit, moves = 2 and
\* all_off() true.
C12_MoveTwiceFromEmpty ==
    (Returned("make_move") /\ ctor = "new_empty"
        /\ last.row < Side /\ last.col < Side) =>
        /\ nops = 1 =>
             /\ Lit = Plus(last.row * Side + last.col)
             /\ moves = 1
             /\ (last.row = 2 /\ last.col = 2) => Lit = {7, 17, 11, 13, 12}
        /\ (nops = 2 /\ rep) =>
             /\ Lit = {}
             /\ moves = 2
             /\ all_off(Self)

\* make_move(2, 2) has run twice on the game new_empty returned
C12_Witness ==
    /\ Returned("make_move")
    /\ ctor = "new_empty"
    /\ nops = 2
    /\ rep
    /\ last.row = 2
    /\ last.col = 2
    /\ pre.lights = [k \in Cells |-> k \in {7, 11, 12, 13, 17}]
    /\ pre.moves = 1
    /\ moves = 2

\* C13: toggle(i) with i >= 25, toggle_rc and check_rc with row >= 5 or
\* col >= 5, and new_random with difficulty > 25 fail before anything is
\* changed: no light is flipped, moves is as before and no observer has run;
\* with arguments inside these ranges none of the four fails.
C13_PreconditionsFirst ==
    /\ last.op = "toggle" => (last.ok <=> last.i < NumLights)
    /\ last.op \in {"toggle_rc", "check_rc"} =>
         (last.ok <=> (last.row < Side /\ last.col < Side))
    /\ last.op = "new_random" => (last.ok <=> last.difficulty <= NumLights)
    /\ (last.op \in {"toggle", "toggle_rc", "check_rc", "new_random"} /\ ~last.ok) =>
         /\ lights = pre.lights
         /\ moves = pre.moves
         /\ fired = <<>>
         /\ notified = <<>>

\* toggle(25) has failed on the game of main with some lights lit
C13_Witness ==
    /\ last.op = "toggle"
    /\ ~last.ok
    /\ last.i = NumLights
    /\ Lit # {}
    /\ observers[0] # <<>>

\* the game has the widgets of main registered / has no observer at all
Wired == \A k \in 0 .. NumLights : observers[k] = <<k>>
Unwired == \A k \in 0 .. NumLights : observers[k] = <<>>

PreLit == {k \in Cells : pre.lights[k]}
SymDiff(A, B) == (A \ B) \cup (B \ A)
Prefix(s, n) == {s[j] : j \in 1 .. n}

\* centre, up, down, left, right of i, those inside the grid
InGridOf(i, k) == k \in Plus(i)
Order(i) ==
    LET InGrid(k) == InGridOf(i, k)
    IN  SelectSeq(<<i, i - Side, i + Side, i - 1, i + 1>>, InGrid)

\* C14: during toggle(i) the affected cells are changed, and their observers
\* notified, strictly in the order centre, up, down, left, right, those outside
\* the grid skipped: the observer of the n-th of them runs when exactly the
\* first n are flipped, and is passed the new status.  The observers of an
\* affected cell run exactly once per toggle(i); those of the other lights and
\* of moves do not run.
C14_PropagationOrder ==
    Returned("toggle") =>
        /\ fired = Order(last.i)
        /\ Wired \/ Unwired
        /\ Unwired => notified = <<>>
        /\ Wired =>
             /\ Len(notified) = Len(fired)
             /\ \A j \in 1 .. Len(notified) :
                  /\ notified[j].f = fired[j]
                  /\ notified[j].cell = fired[j]
                  /\ notified[j].v = lights[fired[j]]
                  /\ notified[j].lit = SymDiff(PreLit, Prefix(fired, j))
                  /\ notified[j].moves = pre.moves

\* toggle(12) has run on the game of main with light 7 lit: five observers
\* were notified, the one of light 7 second, passed the status unlit
C14_Witness ==
    /\ Returned("toggle")
    /\ last.i = 12
    /\ Wired
    /\ pre.lights[7]
    /\ Len(notified) = 5
    /\ notified[2].f = 7
    /\ notified[2].v = FALSE
    /\ fired = <<12, 7, 17, 11, 13>>

\* C15: check_rc(row, col) with row, col in 0..4 and all_off() only read:
\* the 25 lights, moves and every list of observers are as before the call and
\* no observer has run; check_rc returns the status of the light
\* row * 5 + col.
C15_PureReads ==
    (Returned("check_rc") \/ Returned("all_off")) =>
        /\ lights = pre.lights
        /\ moves = pre.moves
        /\ fired = <<>>
        /\ notified = <<>>
        /\ Wired \/ Unwired
        /\ Wired <=> ctor = "new_empty"
        /\ Returned("check_rc") =>
             /\ last.row < Side /\ last.col < Side
             /\ last.ret = lights[last.row * Side + last.col]

\* check_rc(1, 3) has returned true on the game of main: light 8 is lit and
\* light 16 is not
C15_Witness ==
    /\ Returned("check_rc")
    /\ last.row = 1
    /\ last.col = 3
    /\ last.ret
    /\ lights[8]
    /\ ~lights[16]
    /\ Wired

\* C16: in every state in which all_off() is true, make_move(row, col) with
\* row, col in 0..4 is still accepted: it returns, lights exactly the plus
\* neighbourhood of (row, col), so that all_off() is false again, and adds 1 to
\* moves.
C16_MoveAfterWin ==
    (last.op = "make_move" /\ all_off(pre)
        /\ last.row < Side /\ last.col < Side) =>
        /\ last.ok
        /\ Lit = Plus(last.row * Side + last.col)
        /\ ~all_off(Self)
        /\ moves = pre.moves + 1

\* a third make_move has run on a game two moves had left all off
C16_Witness ==
    /\ Returned("make_move")
    /\ all_off(pre)
    /\ pre.moves = 2
    /\ moves = 3
    /\ nmoves = 3
    /\ last.row < Side
    /\ last.col < Side
    /\ ~all_off(Self)

\* C17: in make_move the observers of moves are notified only after every
\* affected light is flipped and its observers notified: the observer of moves
\* runs last, on the final board of the move and the new count, and every
\* observer of a light notified during the move runs while moves still has
\* the value it had before the move.
C17_MovesNotifiedLast ==
    Returned("make_move") =>
        /\ fired = Order(last.row * Side + last.col) \o <<MovesCell>>
        /\ Unwired => notified = <<>>
        /\ Wired =>
             /\ Len(notified) = Len(fired)
             /\ \A j \in 1 .. Len(notified) - 1 :
                  /\ notified[j].cell \in Cells
                  /\ notified[j].cell = fired[j]
                  /\ notified[j].moves = pre.moves
             /\ LET n == notified[Len(notified)]
                IN  /\ n.cell = MovesCell
                    /\ n.f = MovesCell
                    /\ n.v = pre.moves + 1
                    /\ n.moves = moves
                    /\ n.lit = Lit

\* the second move of the game of main was make_move(2, 2): five light
\* observers ran with moves = 1, then the observer of moves was passed 2
C17_Witness ==
    /\ Returned("make_move")
    /\ Wired
    /\ last.row = 2
    /\ last.col = 2
    /\ pre.moves = 1
    /\ Len(notified) = 6
    /\ notified[5].moves = 1
    /\ notified[6].cell = MovesCell
    /\ notified[6].v = 2

\* the grid in which light k is lit iff an odd number of the indices in T have
\* k in their plus neighbourhood, k counted once more when it is in S
ParityBoard(T, S) ==
    [k \in Cells |->
        (Cardinality({i \in T : k \in Plus(i)}) + (IF k \in S THEN 1 ELSE 0)) % 2 = 1]

\* the index a toggle or make_move call toggles
IndexOf(c) == IF c.op = "toggle" THEN c.i ELSE c.row * Side + c.col

\* the game before the last call
PreGame == [Self EXCEPT !.lights = pre.lights, !.moves = pre.moves]

\* C18: toggles commute: toggle(i) then toggle(j), made by toggle or by
\* make_move, leave the grid toggle(j) then toggle(i) would have left from the
\* same grid; and the grid after any sequence of calls is fixed by which
\* indices were toggled an odd number of times (and which single lights
\* toggle_rc flipped an odd number of times), whatever the order.
C18_TogglesCommute ==
    /\ [](lights = ParityBoard(toggled, singles))
    /\ [][(/\ last.op \in {"toggle", "make_move"} /\ last.ok
           /\ last'.op \in {"toggle", "make_move"} /\ last'.ok)
          => lights' = toggle(toggle(PreGame, IndexOf(last')), IndexOf(last)).lights]_vars

\* toggle(0) then toggle(1) have run on the empty grid: lights 0 and 1, flipped
\* by both, are unlit again
C18_Witness ==
    /\ Returned("toggle")
    /\ last.i = 1
    /\ nops = 2
    /\ toggled = {0, 1}
    /\ singles = {}
    /\ pre.lights = [k \in Cells |-> k \in {0, 1, 5}]
    /\ Lit = {2, 5, 6}

\* The sets of indices whose toggles cancel out.  In such a set the toggles of
\* row r + 1 are fixed by those of the rows up to r (light (r, c) must end
\* unlit), so each set is fixed by its row 0: chase every choice of row 0 down
\* the grid and keep those that leave the last row unlit too.
RECURSIVE ChaseRows(_, _)
ChaseRows(T, r) ==
    IF r >= Side - 1 THEN T
    ELSE ChaseRows(
            T \cup {(r + 1) * Side + c : c \in
                      {c \in 0 .. (Side - 1) :
                          Cardinality({i \in T : (r * Side + c) \in Plus(i)}) % 2 = 1}},
            r + 1)

QuietSets ==
    {T \in {ChaseRows(R, 0) : R \in SUBSET (0 .. (Side - 1))} :
        ParityBoard(T, {}) = NoToggles}

QuietSizes == {Cardinality(T) : T \in QuietSets}

\* C19 as stated: for every difficulty in 1..25 and every outcome of the
\* shuffle, the board new_random(difficulty) returns is not all off.
C19_NeverDealtWon ==
    /\ (Returned("new_random") /\ last.difficulty \in 1 .. NumLights) => ~all_off(Self)
    /\ (Returned("all_off") /\ dealt \in 1 .. NumLights) => ~last.ret

\* C19, amended: for every difficulty in 1..25 other than 12 and 16 and every
\* outcome of the shuffle, the board new_random(difficulty) returns is not all
\* off, so that a loop asking all_off() first makes at least one move; with
\* difficulty 12 or 16 the board is all off exactly when the shuffle picked
\* one of the three non-empty sets of indices whose toggles cancel out.
C19_DealtWonOnlyQuiet ==
    /\ QuietSizes = {0, 12, 16}
    /\ (Returned("new_random") /\ last.difficulty \in 1 .. NumLights) =>
         /\ all_off(Self) <=> toggled \in QuietSets
         /\ last.difficulty \notin {12, 16} => ~all_off(Self)
    /\ (Returned("all_off") /\ dealt \in 1 .. NumLights) =>
         /\ last.ret <=> toggled \in QuietSets
         /\ dealt \notin {12, 16} => ~last.ret

\* all_off() has answered false on a board new_random(13) returned
C19_Witness ==
    /\ Returned("all_off")
    /\ dealt = 13
    /\ Cardinality(toggled) = 13
    /\ ~last.ret
    /\ Lit # {}

====
